---- MODULE Spec2Model ----
(***************************************************************************)
(* BrokenRadio (pbIII/engines/speech.py): the schedule a BrokenRadio builds *)
(* at construction, its copy, and the event arrays render hands to the     *)
(* audio engine.                                                           *)
(*                                                                         *)
(* Durations are whole seconds.  Source and sample indices keep Python's   *)
(* 0-based values; the sequences that hold them are 1-based.               *)
(***************************************************************************)
EXTENDS Integers, Sequences, FiniteSets, TLC

VARIABLES
    fs,                      \* fs[s]: the directory of source s, a set of files
    sndinfo,                 \* sndinfo[k]: duration of the sound file numbered k
    args,                    \* the caller's arguments to BrokenRadio(...)
    activity_lv_per_effect,  \* the dict objects: "default" (the def's {}) and "caller"
    level_per_effect,        \* the dict objects of level streams, likewise
    deciders,                \* the infit.Cycle objects used as source_decider
    pause_per_event,         \* the infit.Cycle object passed as pause_per_event
    makers,                  \* the infit.Cycle objects of the eight *_maker defaults
    rng,                     \* the state of the process-wide random module
    radios,                  \* the BrokenRadio objects constructed so far
    outcomes,                \* per constructor call, what it raised ("none": it returned)
    submitted                \* the batches render handed to the audio engine

vars == <<fs, sndinfo, args, activity_lv_per_effect, level_per_effect, deciders,
          pause_per_event, makers, rng, radios, outcomes, submitted>>

----------------------------------------------------------------------------
(* Bounds of the model *)

MaxFiles == 3
MaxCalls == 2
MaxRenders == 2
MaxDuration == 5
MaxInterlock == 6
MaxListing == 3

----------------------------------------------------------------------------
(* Small helpers *)

None == << >>

Min(a, b) == IF a < b THEN a ELSE b

Abs(x) == IF x < 0 THEN -x ELSE x

RECURSIVE SumSeq(_)
SumSeq(s) == IF s = << >> THEN 0 ELSE Head(s) + SumSeq(Tail(s))

RECURSIVE MinSeq(_)
MinSeq(s) == IF Len(s) = 1 THEN s[1] ELSE Min(s[1], MinSeq(Tail(s)))

Reversed(s) == [i \in 1..Len(s) |-> s[Len(s) + 1 - i]]

Range(s) == {s[i] : i \in 1..Len(s)}

Prefix(s, n) == SubSeq(s, 1, n)

\* s[k:] of Python, k >= 0
SliceFrom(s, k) == IF k >= Len(s) THEN << >> ELSE SubSeq(s, k + 1, Len(s))

Swap(s, i, j) == [s EXCEPT ![i] = s[j], ![j] = s[i]]

CountTrue(g, n) == Cardinality({i \in 1..n : g[i]})

----------------------------------------------------------------------------
(* infit.Cycle: an endless iterator over a tuple *)

Cycle(items) == [items |-> items, pos |-> 0]

\* the k-th value a run of next() calls yields (k = 1 is the next one)
Peek(c, k) == c.items[((c.pos + k - 1) % Len(c.items)) + 1]

Draw(c, n) == [k \in 1..n |-> Peek(c, k)]

Advance(c, n) == [c EXCEPT !.pos = (c.pos + n) % Len(c.items)]

PyRange(n) == [i \in 1..n |-> i - 1]

----------------------------------------------------------------------------
(* The random module: seed, random, shuffle.  A linear congruential step   *)
(* stands for the generator: what the model keeps of it is that the values *)
(* drawn are a function of the seed and of the number of draws since.      *)

Seed(n) == n % 16

RngStep(x) == (5 * x + 3) % 16

\* random.uniform(0.2, 0.4), in hundredths
Uniform(x) == 20 + RngStep(x)

RECURSIVE RngSteps(_, _)
RngSteps(x, n) == IF n = 0 THEN x ELSE RngSteps(RngStep(x), n - 1)

\* random.shuffle: for i in reversed(range(1, len(x))): j = randbelow(i + 1); swap
RECURSIVE ShuffleFrom(_, _, _)
ShuffleFrom(s, i, x) ==
    IF i < 1 THEN [list |-> s, rng |-> x]
    ELSE LET y == RngStep(x)
             j == y % (i + 1)
         IN ShuffleFrom(Swap(s, i + 1, j + 1), i - 1, y)

Shuffle(s, x) == ShuffleFrom(s, Len(s) - 1, x)

----------------------------------------------------------------------------
(* BrokenRadio's class constants *)

Effects == <<"original", "harmonizer", "filter", "distortion",
             "ringmodulation", "noise", "lorenz", "chenlee">>

EffectSet == Range(Effects)

Orders == {"original", "reverse", "shuffle"}

Makers == {"filter_freq", "filter_q", "rm_freq", "transpo", "chenlee_chaos",
           "chenlee_pitch", "lorenz_chaos", "lorenz_pitch"}

\* the default *_maker arguments of __init__, values in hundredths
DefaultMakers ==
    [m \in Makers |->
        Cycle(CASE m = "filter_freq"   -> <<20000>>
                [] m = "filter_q"      -> <<50>>
                [] m = "rm_freq"       -> <<70000>>
                [] m = "transpo"       -> <<-300, -100, -200, -500>>
                [] m = "chenlee_chaos" -> <<75, 100, 50, 80>>
                [] m = "chenlee_pitch" -> <<50, 75, 66>>
                [] m = "lorenz_chaos"  -> <<50, 70, 60>>
                [] m = "lorenz_pitch"  -> <<50, 60, 55>>)]

----------------------------------------------------------------------------
(* detect_files *)

IsWav(f) == f.ext = "wav"

\* natural order of the names "<key>.<ext>": by number, then by extension
NatLess(f, g) ==
    \/ f.key < g.key
    \/ f.key = g.key /\ f.ext = "txt" /\ g.ext = "wav"

RECURSIVE natsorted(_)
natsorted(S) ==
    IF S = {} THEN << >>
    ELSE LET m == CHOOSE f \in S : \A g \in S \ {f} : NatLess(f, g)
         IN <<m>> \o natsorted(S \ {m})

\* one turn of the loop of detect_files, for a source whose order is known
OrderedFiles(dir, order, skip_n_samples, x) ==
    LET all_files == SliceFrom(natsorted(dir), skip_n_samples)
        sh == Shuffle(all_files, x)
        ordered == IF order = "reverse" THEN Reversed(all_files)
                   ELSE IF order = "shuffle" THEN sh.list
                   ELSE all_files
    IN [files |-> SelectSeq(ordered, IsWav),
        rng |-> IF order = "shuffle" THEN sh.rng ELSE x]

\* the loop of detect_files from source i on: what it raises, the files of
\* the sources it got through, and the generator's state when it ends
RECURSIVE DetectFrom(_, _, _, _, _)
DetectFrom(i, n, order_per_source, skip_n_samples_per_source, x) ==
    IF i > n THEN [err |-> "none", files |-> << >>, rng |-> x]
    ELSE IF order_per_source[i] \notin Orders
    THEN [err |-> "Unknown order", files |-> << >>, rng |-> x]
    ELSE LET one == OrderedFiles(fs[i], order_per_source[i],
                                 skip_n_samples_per_source[i], x)
             rest == DetectFrom(i + 1, n, order_per_source,
                                skip_n_samples_per_source, one.rng)
         IN [err |-> rest.err, files |-> <<one.files>> \o rest.files,
             rng |-> rest.rng]

detect_files(n, order_per_source, skip_n_samples_per_source) ==
    DetectFrom(1, n, order_per_source, skip_n_samples_per_source, Seed(10))

\* detect_data_per_source, item 1 of sndinfo: the duration of each file
detect_data_per_source(path_per_source) ==
    [s \in 1..Len(path_per_source) |->
        [i \in 1..Len(path_per_source[s]) |-> sndinfo[path_per_source[s][i].key]]]

----------------------------------------------------------------------------
(* The schedule *)

\* mutant: reversed(range(len(source))), each source's keys last first
SequentialKeys_Reversed(path_per_source) ==
    [s \in 1..Len(path_per_source) |->
        [i \in 1..Len(path_per_source[s]) |->
            <<s - 1, Len(path_per_source[s]) - i>>]]

\* mutant: range(len(source) - 1), the last sample of each source left out
SequentialKeys_DropLast(path_per_source) ==
    [s \in 1..Len(path_per_source) |->
        [i \in 1..(Len(path_per_source[s]) - 1) |-> <<s - 1, i - 1>>]]

\* the keys __init__ hands to euclidic_interlocking, one tuple per source
SequentialKeys(path_per_source) ==
    [s \in 1..Len(path_per_source) |->
        [i \in 1..Len(path_per_source[s]) |-> <<s - 1, i - 1>>]]

\* tools.euclidic_interlocking (package mu): item j of sequence s is placed
\* at the fractional offset j * total / L_s; the items are merged by
\* increasing offset, the lower sequence first on a tie
EuclidBefore(a, b, L) ==
    \/ a[2] * L[b[1]] < b[2] * L[a[1]]
    \/ a[2] * L[b[1]] = b[2] * L[a[1]] /\ a[1] < b[1]

RECURSIVE EuclidMerge(_, _)
EuclidMerge(S, L) ==
    IF S = {} THEN << >>
    ELSE LET m == CHOOSE a \in S : \A b \in S \ {a} : EuclidBefore(a, b, L)
         IN <<m>> \o EuclidMerge(S \ {m}, L)

euclidic_interlocking(iterable) ==
    LET L == [s \in 1..Len(iterable) |-> Len(iterable[s])]
        S == UNION {{<<s, j>> : j \in 0..(L[s] - 1)} : s \in 1..Len(iterable)}
        order == EuclidMerge(S, L)
    IN [k \in 1..Len(order) |-> iterable[order[k][1]][order[k][2] + 1]]

\* mutant: next(self.source_decider) taken once, outside the loop
ParallelKeys_OneDraw(decider, maxima_n_events) ==
    [i \in 1..maxima_n_events |-> <<Peek(decider, 1), i - 1>>]

\* the parallel schedule: (next(self.source_decider), idx) for idx in range(n)
ParallelKeys(decider, maxima_n_events) ==
    [i \in 1..maxima_n_events |-> <<Peek(decider, i), i - 1>>]

ParallelCount(path_per_source) ==
    MinSeq([s \in 1..Len(path_per_source) |-> Len(path_per_source[s])])

SequentialCount(path_per_source) ==
    SumSeq([s \in 1..Len(path_per_source) |-> Len(path_per_source[s])])

\* dps - 1 + next(pause_per_event) for each scheduled sample
EventDurations(duration_per_sample, pause) ==
    [i \in 1..Len(duration_per_sample) |->
        duration_per_sample[i] - 1 + Peek(pause, i)]

\* mutant: assert self.maxima_duration >= self.duration
EnoughMaterial_OrEqual(maxima_duration, duration) == maxima_duration >= duration

\* the assert that ends __init__
EnoughMaterial(maxima_duration, duration) == maxima_duration > duration

----------------------------------------------------------------------------
(* The duration budget of render *)

\* tools.accumulate_from_zero (package mu): (0, d1, d1 + d2, ...)
accumulate_from_zero(d) == [k \in 1..(Len(d) + 1) |-> SumSeq(Prefix(d, k - 1))]

\* bisect.bisect_left on ascending data: how many elements lie below item
bisect_left(data, item) == Cardinality({k \in 1..Len(data) : data[k] < item})

\* mutant: the last element not above item (bisect_right - 1)
find_closest_index_Floor(item, data) ==
    Cardinality({k \in 1..Len(data) : data[k] <= item}) - 1

\* tools.find_closest_index (package mu), on ascending data: the 0-based
\* index of the element with the smallest difference to item; of the two
\* neighbours of item the upper one when they are equally near
find_closest_index(item, data) ==
    LET solution == bisect_left(data, item)
    IN IF solution = Len(data) THEN solution - 1
       ELSE IF solution = 0 THEN solution
       ELSE IF Abs(item - data[solution + 1]) <= Abs(item - data[solution])
            THEN solution
            ELSE solution - 1

----------------------------------------------------------------------------
(* The activity gate: activity_levels.ActivityLevel (package mu), called   *)
(* with a level.  "0 -> never played, 10 -> always played"; between the    *)
(* two the outcome depends on the gate's own history, left open here.      *)

GateRuns(activity_lv, n) ==
    IF activity_lv = 0 THEN {[i \in 1..n |-> FALSE]}
    ELSE IF activity_lv = 10 THEN {[i \in 1..n |-> TRUE]}
    ELSE [1..n -> BOOLEAN]

\* the runs of the first k effects' gates over n events
RECURSIVE GateRunsPerEffect(_, _, _)
GateRunsPerEffect(k, act, n) ==
    IF k = 0 THEN {<< >>}
    ELSE {Append(p, g) : p \in GateRunsPerEffect(k - 1, act, n),
                         g \in GateRuns(act[Effects[k]], n)}

EffectIndex(e) == CHOOSE k \in 1..Len(Effects) : Effects[k] = e

\* mutant: next(level) taken for every event, kept only if the gate says so
EffectLevels_AlwaysDraw(level, gate, n) ==
    [i \in 1..n |-> IF gate[i] THEN Peek(level, i) ELSE 0]

\* next(level) if the gate says so else 0, event by event
EffectLevels(level, gate, n) ==
    [i \in 1..n |-> IF gate[i] THEN Peek(level, CountTrue(gate, i)) ELSE 0]

\* the ramp endpoints: n uniform draws u, zipped as (0, u1), (u1, u2), ...
AmbientNoise(x, n) ==
    LET u == [i \in 1..n |-> Uniform(RngSteps(x, i - 1))]
    IN [i \in 1..n |-> <<IF i = 1 THEN 0 ELSE u[i - 1], u[i]>>]

\* mutant: render draws on from wherever the generator stands
RenderSeed_NotReseeded == rng

\* random_ambient_noise_lv.seed(1) as render starts
RenderSeed == Seed(1)

----------------------------------------------------------------------------
(* BrokenRadio.__init__ *)

\* the loop over __effects: a missing key is added to the dict passed in
FillDefaults(d, v) == [e \in EffectSet |-> IF e \in DOMAIN d THEN d[e] ELSE v]

\* mutant: the final else of the interlocking test never taken
KnownInterlocking_Lenient(interlocking) ==
    interlocking \in {"parallel", "sequential", "serial"}

KnownInterlocking(interlocking) == interlocking \in {"parallel", "sequential"}

\* ValueError(msg): "Unknown order", "Unknown interlocking", or "Not enough
\* samples for duration {}. Max duration {}" with the two numbers it formats
Raised(msg, duration, maxima_duration) ==
    [msg |-> msg,
     duration |-> IF msg = "Not enough samples" THEN duration ELSE 0,
     maxima_duration |-> IF msg = "Not enough samples" THEN maxima_duration ELSE 0]

\* the scheduled samples' paths and durations, by key
SamplePaths(path_per_source, keys) ==
    [i \in 1..Len(keys) |->
        [source |-> keys[i][1],
         file |-> path_per_source[keys[i][1] + 1][keys[i][2] + 1]]]

SampleDurations(data_per_source, keys) ==
    [i \in 1..Len(keys) |-> data_per_source[keys[i][1] + 1][keys[i][2] + 1]]

\* One constructor call.  source_decider = 0 stands for None, any other
\* value names the Cycle object deciders[source_decider].  (Each \E over a
\* one-element set names a value the constructor computes once.)
BrokenRadio(order_arg, skip_arg, source_decider, via) ==
    \E order_per_source \in
          {IF order_arg = None THEN [i \in 1..args.n |-> "original"] ELSE order_arg},
       skip_n_samples_per_source \in
          {IF skip_arg = None THEN [i \in 1..args.n |-> 0] ELSE skip_arg},
       decider \in {IF source_decider = 0 THEN Cycle(PyRange(args.n))
                    ELSE deciders[source_decider]} :
    \E det \in {detect_files(args.n, order_per_source, skip_n_samples_per_source)} :
    \E scheduled \in {det.err = "none" /\ KnownInterlocking(args.interlocking)},
       parallel \in {args.interlocking = "parallel"} :
    \E maxima_n_events \in
          {IF ~scheduled THEN 0
           ELSE IF parallel THEN ParallelCount(det.files)
           ELSE SequentialCount(det.files)} :
    \E sample_key_per_event \in
          {IF ~scheduled THEN << >>
           ELSE IF parallel THEN ParallelKeys(decider, maxima_n_events)
           ELSE euclidic_interlocking(SequentialKeys(det.files))} :
    \E duration_per_event \in
          {EventDurations(
               SampleDurations(detect_data_per_source(det.files),
                               sample_key_per_event),
               pause_per_event)} :
    \E maxima_duration \in {SumSeq(duration_per_event)} :
    \E err \in {IF det.err # "none" THEN det.err
                ELSE IF ~KnownInterlocking(args.interlocking)
                     THEN "Unknown interlocking"
                ELSE IF ~EnoughMaterial(maxima_duration, args.duration)
                     THEN "Not enough samples"
                ELSE "none"},
       decider_after \in {IF scheduled /\ parallel
                          THEN Advance(decider, maxima_n_events) ELSE decider} :
       /\ activity_lv_per_effect' =
              [activity_lv_per_effect EXCEPT ![args.activity] = FillDefaults(@, 0)]
       /\ level_per_effect' =
              [level_per_effect EXCEPT ![args.level] = FillDefaults(@, Cycle(<<1>>))]
       /\ rng' = det.rng
       /\ pause_per_event' =
              IF scheduled
              THEN Advance(pause_per_event, Len(sample_key_per_event))
              ELSE pause_per_event
       /\ deciders' =
              IF source_decider # 0
              THEN [deciders EXCEPT ![source_decider] = decider_after]
              ELSE IF err = "none" THEN Append(deciders, decider_after)
              ELSE deciders
       /\ radios' =
              IF err = "none"
              THEN Append(radios,
                     [via |-> via,
                      order_per_source |-> order_per_source,
                      skip_n_samples_per_source |-> skip_n_samples_per_source,
                      source_decider |-> IF source_decider = 0
                                         THEN Len(deciders) + 1 ELSE source_decider,
                      decider_found |-> decider,
                      pause_found |-> pause_per_event,
                      activity_lv_per_effect |-> args.activity,
                      level_per_effect |-> args.level,
                      duration |-> args.duration,
                      interlocking |-> args.interlocking,
                      path_per_source |-> det.files,
                      maxima_n_events |-> maxima_n_events,
                      sample_key_per_event |-> sample_key_per_event,
                      sample_path_per_event |->
                          SamplePaths(det.files, sample_key_per_event),
                      duration_per_event |-> duration_per_event,
                      maxima_duration |-> maxima_duration])
              ELSE radios
       /\ outcomes' = Append(outcomes, Raised(err, args.duration, maxima_duration))
       /\ UNCHANGED <<fs, sndinfo, args, makers, submitted>>

\* the caller constructs a BrokenRadio from its arguments
Construct ==
    /\ Len(outcomes) < MaxCalls
    /\ BrokenRadio(args.order_per_source, args.skip_n_samples_per_source,
                   args.source_decider, "init")

\* BrokenRadio.copy: the constructor again, on the attributes of self
Copy ==
    /\ Len(outcomes) < MaxCalls
    /\ \E r \in 1..Len(radios) :
          BrokenRadio(radios[r].order_per_source,
                      radios[r].skip_n_samples_per_source,
                      radios[r].source_decider, "copy")

----------------------------------------------------------------------------
(* BrokenRadio.render *)

Render ==
    /\ Len(submitted) < MaxRenders
    /\ \E r \in 1..Len(radios) :
       \E self \in {radios[r]} :
       \E n_events \in {find_closest_index(
                            self.duration,
                            accumulate_from_zero(self.duration_per_event))},
          act \in {activity_lv_per_effect[self.activity_lv_per_effect]},
          level \in {level_per_effect[self.level_per_effect]} :
       \E gates \in GateRunsPerEffect(Len(Effects), act, n_events) :
       \E gate \in {[e \in EffectSet |-> gates[EffectIndex(e)]]} :
          /\ submitted' = Append(submitted,
                [radio |-> r,
                 n_events |-> n_events,
                 dur |-> Prefix(self.duration_per_event, n_events),
                 path |-> Prefix(self.sample_path_per_event, n_events),
                 activity_lv |-> act,
                 gate |-> gate,
                 level_found |-> level,
                 lv_per_effect |->
                     [e \in EffectSet |-> EffectLevels(level[e], gate[e], n_events)],
                 ambient_noise_lv |-> AmbientNoise(RenderSeed, n_events),
                 params |-> [m \in Makers |-> Draw(makers[m], n_events)]])
          /\ level_per_effect' =
                [level_per_effect EXCEPT ![self.level_per_effect] =
                    [e \in EffectSet |->
                        Advance(level[e], CountTrue(gate[e], n_events))]]
          /\ makers' = [m \in Makers |-> Advance(makers[m], n_events)]
          /\ rng' = RngSteps(RenderSeed, n_events)
          /\ UNCHANGED <<fs, sndinfo, args, activity_lv_per_effect,
                         deciders, pause_per_event, radios, outcomes>>

Next == Construct \/ Copy \/ Render

----------------------------------------------------------------------------
(* The states the program starts in: a file system, the caller's arguments *)
(* and the objects that exist before the first constructor call.           *)

File(k, ext) == [key |-> k, ext |-> ext]

\* a directory of n sound files
WavDir(n) == {File(k, "wav") : k \in 1..n}

Max3(a, b, c) == IF a >= b /\ a >= c THEN a ELSE IF b >= c THEN b ELSE c

Keys == 1..Max3(MaxFiles, MaxInterlock, MaxListing)

EmptyDict == [e \in {} |-> 0]

DictRefs == {"default", "caller"}

RngStart == {0, 9}

\* what the caller may pass as source_decider for n sources
CallerDecider(n) == IF n = 1 THEN <<0>> ELSE <<1, 0>>

InitWith(Ns, Dirs, OrderChoices(_), SkipChoices(_), Deciders, Interlockings,
         Durations, Pauses, SndTables, ActivityDicts, LevelDicts) ==
    /\ \E n \in Ns :
          /\ fs \in [1..n -> Dirs]
          /\ \E order \in OrderChoices(n), skip \in SkipChoices(n), d \in Deciders,
                a \in ActivityDicts, l \in LevelDicts :
                /\ args \in [n : {n},
                             order_per_source : {order},
                             skip_n_samples_per_source : {skip},
                             source_decider : {d},
                             activity : {IF a = EmptyDict THEN "default" ELSE "caller"},
                             level : {IF l = EmptyDict THEN "default" ELSE "caller"},
                             duration : Durations,
                             interlocking : Interlockings]
                /\ deciders = IF d = 0 THEN << >> ELSE <<Cycle(CallerDecider(n))>>
                /\ activity_lv_per_effect =
                       [ref \in DictRefs |-> IF ref = "caller" THEN a ELSE EmptyDict]
                /\ level_per_effect =
                       [ref \in DictRefs |-> IF ref = "caller" THEN l ELSE EmptyDict]
    /\ sndinfo \in SndTables
    /\ \E p \in Pauses : pause_per_event = Cycle(p)
    /\ makers = DefaultMakers
    /\ rng \in RngStart
    /\ radios = << >>
    /\ outcomes = << >>
    /\ submitted = << >>

NoOrder(n) == {None}

NoSkip(n) == {None}

OriginalOrShuffled(n) == {None, [i \in 1..n |-> "shuffle"]}

EvenTable == [k \in Keys |-> 2]

MixedTable == [k \in Keys |-> IF k % 2 = 1 THEN 3 ELSE 2]

\* schedules: one or two sources of 1..MaxFiles sound files
Init ==
    InitWith({1, 2}, {WavDir(k) : k \in 1..MaxFiles}, OriginalOrShuffled, NoSkip,
             {0, 1}, {"parallel", "sequential"}, {2, 4},
             {<<0>>, <<0, 1>>}, {MixedTable}, {EmptyDict}, {EmptyDict})

Spec == Init /\ [][Next]_vars

\* rendering: one source, every mix of short and long samples, requested
\* durations from 0 on
SampleTables ==
    {[k \in Keys |-> IF k <= MaxFiles THEN t[k] ELSE 2] :
        t \in [1..MaxFiles -> {2, 4}]}

InitRender ==
    InitWith({1}, {WavDir(k) : k \in 1..MaxFiles}, NoOrder, NoSkip,
             {0}, {"parallel"}, 0..MaxDuration,
             {<<0>>, <<0, 1>>}, SampleTables, {EmptyDict}, {EmptyDict})

SpecRender == InitRender /\ [][Next]_vars

\* effects: switched off, on, and in between, with level streams of the
\* caller's and the default ones
CallerActivity ==
    {EmptyDict,
     ("original" :> 10) @@ ("noise" :> 0),
     ("original" :> 10) @@ ("harmonizer" :> 5)}

CallerLevels ==
    {EmptyDict,
     ("original" :> Cycle(<<1, 2>>)) @@ ("harmonizer" :> Cycle(<<3, 4, 5, 6, 7>>))}

InitEffects ==
    InitWith({1}, {WavDir(k) : k \in 1..MaxFiles}, NoOrder, NoSkip,
             {0}, {"parallel"}, {1, 2},
             {<<0>>}, {EvenTable}, CallerActivity, CallerLevels)

SpecEffects == InitEffects /\ [][Next]_vars

\* catalogs: one directory of sound files and other files, every order
\* and skip count
Listings ==
    {{File(k, ext[k]) : k \in D} : D \in SUBSET (1..MaxListing),
                                    ext \in [1..MaxListing -> {"wav", "txt"}]}

AnyOrder(n) == {None} \cup [1..n -> Orders]

AnySkip(n) == {None} \cup [1..n -> 0..2]

InitCatalog ==
    InitWith({1}, Listings, AnyOrder, AnySkip,
             {0}, {"parallel", "sequential"}, {1},
             {<<0>>}, {EvenTable}, {EmptyDict}, {EmptyDict})

SpecCatalog == InitCatalog /\ [][Next]_vars

\* configurations: recognized and unrecognized policy strings
AnyOrderString(n) == {None} \cup [1..n -> Orders \cup {"random"}]

InitConfig ==
    InitWith({1, 2}, {WavDir(k) : k \in 1..2}, AnyOrderString, NoSkip,
             {0, 1}, {"parallel", "sequential", "serial"}, {1, 3},
             {<<0>>}, {EvenTable}, {EmptyDict}, {EmptyDict})

SpecConfig == InitConfig /\ [][Next]_vars

\* interlocking: two sources of up to MaxInterlock samples
InitInterlock ==
    InitWith({2}, {WavDir(k) : k \in 1..MaxInterlock}, NoOrder, NoSkip,
             {0}, {"sequential"}, {1},
             {<<0>>}, {EvenTable}, {EmptyDict}, {EmptyDict})

SpecInterlock == InitInterlock /\ [][Next]_vars

----------------------------------------------------------------------------
(* Claims *)

Radios == 1..Len(radios)

NSources(r) == Len(radios[r].path_per_source)

SourceLen(r, s) == Len(radios[r].path_per_source[s + 1])

\* C1: under `parallel` the schedule is as long as the shortest source, its
\* i-th key is (the i-th value the source decider yields from where the
\* constructor found it, i), and with the default decider over N sources
\* the i-th source index is i mod N.
C1_ParallelSchedule ==
    \A r \in Radios :
        radios[r].interlocking = "parallel" =>
            LET keys == radios[r].sample_key_per_event
                found == radios[r].decider_found
                N == NSources(r)
            IN /\ \A s \in 0..(N - 1) : Len(keys) <= SourceLen(r, s)
               /\ \E s \in 0..(N - 1) : Len(keys) = SourceLen(r, s)
               /\ \A i \in 0..(Len(keys) - 1) :
                     /\ keys[i + 1][2] = i
                     /\ keys[i + 1][1] =
                            found.items[((found.pos + i) % Len(found.items)) + 1]
                     /\ (radios[r].via = "init" /\ args.source_decider = 0)
                            => keys[i + 1][1] = i % N

\* a default-decider parallel schedule over two sources of different sizes,
\* long enough to come back to source 0
C1_Witness ==
    \E r \in Radios :
        /\ radios[r].interlocking = "parallel"
        /\ radios[r].via = "init" /\ args.source_decider = 0
        /\ NSources(r) = 2
        /\ SourceLen(r, 0) # SourceLen(r, 1)
        /\ Len(radios[r].sample_key_per_event) >= 2
        /\ radios[r].sample_key_per_event[2] = <<1, 1>>

\* C2: under `sequential` the schedule holds every key (s, p),
\* 0 <= p < len(source s), exactly once, and nothing else: its length is the
\* sum of the sources' sample counts.
C2_SequentialPermutation ==
    \A r \in Radios :
        radios[r].interlocking = "sequential" =>
            LET keys == radios[r].sample_key_per_event
                N == NSources(r)
            IN /\ Len(keys) = SumSeq([s \in 1..N |-> SourceLen(r, s - 1)])
               /\ \A s \in 0..(N - 1) : \A p \in 0..(SourceLen(r, s) - 1) :
                     Cardinality({i \in 1..Len(keys) : keys[i] = <<s, p>>}) = 1

\* a sequential schedule over two sources of different sizes
C2_Witness ==
    \E r \in Radios :
        /\ radios[r].interlocking = "sequential"
        /\ NSources(r) = 2
        /\ SourceLen(r, 0) # SourceLen(r, 1)
        /\ Len(radios[r].sample_key_per_event) >= 4

\* C3: under `sequential` the schedule is the merge of the sources' keys by
\* increasing offset j * total / L_s, the lower source first on a tie; hence
\* of two sources with at least two samples each (lengths [2,6], say)
\* neither has all its keys before all of the other's.
AllBefore(keys, s, t) ==
    \A i \in 1..Len(keys), j \in 1..Len(keys) :
        (keys[i][1] = s /\ keys[j][1] = t) => i < j

C3_Interleaved ==
    \A r \in Radios :
        radios[r].interlocking = "sequential" =>
            LET keys == radios[r].sample_key_per_event
                N == NSources(r)
            IN /\ \A i \in 1..Len(keys), j \in 1..Len(keys) :
                     i < j =>
                        LET a == keys[i]
                            b == keys[j]
                            oa == a[2] * SourceLen(r, b[1])
                            ob == b[2] * SourceLen(r, a[1])
                        IN oa < ob \/ (oa = ob /\ a[1] < b[1])
               /\ \A s \in 0..(N - 1), t \in 0..(N - 1) :
                     (s # t /\ SourceLen(r, s) >= 2 /\ SourceLen(r, t) >= 2)
                        => ~AllBefore(keys, s, t)

\* the schedule of two sources of 2 and 6 samples
C3_Witness ==
    \E r \in Radios :
        /\ radios[r].interlocking = "sequential"
        /\ NSources(r) = 2
        /\ SourceLen(r, 0) = 2 /\ SourceLen(r, 1) = 6
        /\ Len(radios[r].sample_key_per_event) = 8

Calls == 1..Len(outcomes)

\* C4: a constructor call raises "Not enough samples" when the sum of the
\* event durations (sample duration - 1 + pause each) is at most the
\* requested duration, and returns an object when the sum exceeds it; the
\* object holds the whole schedule, and a call that raises leaves no object.
C4_InsufficientMaterial ==
    /\ \A c \in Calls :
          outcomes[c].msg = "Not enough samples"
             => outcomes[c].maxima_duration <= outcomes[c].duration
    /\ \A r \in Radios :
          LET d == radios[r].duration_per_event
          IN /\ radios[r].maxima_duration > radios[r].duration
             /\ radios[r].maxima_duration = SumSeq(d)
             /\ Len(d) = radios[r].maxima_n_events
             /\ Len(d) = Len(radios[r].sample_key_per_event)
             /\ \A i \in 1..Len(d) :
                   d[i] = sndinfo[radios[r].sample_path_per_event[i].file.key] - 1
                          + Peek(radios[r].pause_found, i)
    /\ Len(radios) = Cardinality({c \in Calls : outcomes[c].msg = "none"})

\* a call that raised with the sum equal to the requested duration, and an
\* object built with the sum one above it
C4_Witness ==
    /\ \E c \in Calls :
          /\ outcomes[c].msg = "Not enough samples"
          /\ outcomes[c].maxima_duration = outcomes[c].duration
    /\ \E r \in Radios : radios[r].maxima_duration = radios[r].duration + 1

Batches == 1..Len(submitted)

\* the sum of the first k event durations of the radio batch b was rendered from
Cumulated(b, k) ==
    SumSeq(Prefix(radios[submitted[b].radio].duration_per_event, k))

Requested(b) == radios[submitted[b].radio].duration

BadPolicy ==
    \/ args.interlocking \notin {"parallel", "sequential"}
    \/ /\ args.order_per_source # None
       /\ \E i \in 1..args.n :
             args.order_per_source[i] \notin {"original", "reverse", "shuffle"}

ConfigError(msg) == msg \in {"Unknown order", "Unknown interlocking"}

C6_ConfigError ==
    /\ BadPolicy => /\ radios = << >>
                    /\ \A c \in Calls : ConfigError(outcomes[c].msg)
    /\ ~BadPolicy => \A c \in Calls : ~ConfigError(outcomes[c].msg)

\* a call with an unknown interlocking and orders that are all recognized
C6_Witness ==
    /\ args.interlocking = "serial"
    /\ args.n = 2
    /\ args.order_per_source = <<"reverse", "shuffle">>
    /\ Len(outcomes) >= 1
    /\ outcomes[1].msg = "Unknown interlocking"

\* C7: an effect whose activity level is 0 is off in every event (level 0);
\* one whose level is 10 is on in every event and takes the next value of
\* its level stream each time; whatever the level, an event with the gate
\* off has level 0 and takes no value from the stream.
C7_GateAndLevels ==
    \A b \in Batches : \A e \in EffectSet :
        LET n == submitted[b].n_events
            gate == submitted[b].gate[e]
            lv == submitted[b].lv_per_effect[e]
            found == submitted[b].level_found[e]
            dict == radios[submitted[b].radio].level_per_effect
            left == IF b = Len(submitted) THEN level_per_effect[dict][e]
                    ELSE submitted[b + 1].level_found[e]
            on(i) == Cardinality({j \in 1..i : gate[j]})
        IN /\ Len(lv) = n
           /\ submitted[b].activity_lv[e] = 0
                 => \A i \in 1..n : ~gate[i] /\ lv[i] = 0
           /\ submitted[b].activity_lv[e] = 10
                 => \A i \in 1..n :
                       /\ gate[i]
                       /\ lv[i] = found.items[((found.pos + i - 1)
                                               % Len(found.items)) + 1]
           /\ \A i \in 1..n :
                 /\ ~gate[i] => lv[i] = 0
                 /\ gate[i] => lv[i] = found.items[((found.pos + on(i) - 1)
                                                    % Len(found.items)) + 1]
           /\ left.pos = (found.pos + on(n)) % Len(found.items)

\* a batch with an effect that is always on, one that is always off and one
\* that was off for the first event and on for the second
C7_Witness ==
    \E b \in Batches :
        /\ submitted[b].n_events >= 2
        /\ submitted[b].activity_lv["original"] = 10
        /\ Len(submitted[b].level_found["original"].items) = 2
        /\ submitted[b].activity_lv["noise"] = 0
        /\ submitted[b].activity_lv["harmonizer"] = 5
        /\ ~submitted[b].gate["harmonizer"][1]
        /\ submitted[b].gate["harmonizer"][2]

\* C8: two BrokenRadio objects built from the same configuration values, a
\* copy() of a constructed one included, have identical sample_key_per_event
\* and duration_per_event.  Stated where the caller passes neither a
\* source_decider nor a non-constant pause_per_event, so that the caller
\* shares no stream object between its own calls.
C8_SameSchedule ==
    (args.source_decider = 0 /\ pause_per_event.items = <<0>>) =>
        \A r1 \in Radios, r2 \in Radios :
            /\ radios[r1].sample_key_per_event = radios[r2].sample_key_per_event
            /\ radios[r1].duration_per_event = radios[r2].duration_per_event


\* C9 as claimed: a source's catalog is its sound files in natural order
\* without the first `skip` of them, reversed under `reverse`; files that
\* are no sound files do not count among the skipped.
SoundFiles(s) == natsorted({f \in fs[s] : f.ext = "wav"})

C9_FilterThenSkip ==
    \A r \in Radios : \A s \in 1..NSources(r) :
        LET kept == SliceFrom(SoundFiles(s), radios[r].skip_n_samples_per_source[s])
            order == radios[r].order_per_source[s]
        IN /\ order = "original" => radios[r].path_per_source[s] = kept
           /\ order = "reverse" => radios[r].path_per_source[s] = Reversed(kept)

\* C10: in every batch there is one pair of ramp endpoints per event, the
\* first pair leads with 0, each later pair leads with the trailing value of
\* the pair before, and two renders of one BrokenRadio yield the same pairs.
C10_AmbientChain ==
    /\ \A b \in Batches :
          LET a == submitted[b].ambient_noise_lv
          IN /\ Len(a) = submitted[b].n_events
             /\ Len(a) = Len(submitted[b].dur)
             /\ Len(a) >= 1 => a[1][1] = 0
             /\ \A k \in 2..Len(a) : a[k][1] = a[k - 1][2]
    /\ \A b1 \in Batches, b2 \in Batches :
          submitted[b1].radio = submitted[b2].radio
             => submitted[b1].ambient_noise_lv = submitted[b2].ambient_noise_lv

\* two renders of one BrokenRadio, of two events or more
C10_Witness ==
    \E b1 \in Batches, b2 \in Batches :
        /\ b1 < b2
        /\ submitted[b1].radio = submitted[b2].radio
        /\ submitted[b1].n_events >= 2

\* the events that earlier renders of batch b's own radio consumed
OwnEvents(b) ==
    SumSeq([i \in 1..(b - 1) |->
               IF submitted[i].radio = submitted[b].radio
               THEN submitted[i].n_events ELSE 0])

\* what a render observes depends on its own radio only: the parameter
\* streams stand where this radio's earlier renders left them, and a radio
\* on the default effect configuration sees every activity level at 0 and
\* every level stream at its start
StreamsOwnedPerRadio ==
    (\A r \in Radios : radios[r].via = "init") =>
        \A b \in Batches :
            LET self == radios[submitted[b].radio]
            IN /\ \A m \in Makers :
                     submitted[b].params[m] =
                         Draw(Advance(DefaultMakers[m], OwnEvents(b)),
                              submitted[b].n_events)
               /\ self.activity_lv_per_effect = "default"
                     => submitted[b].activity_lv = [e \in EffectSet |-> 0]
               /\ self.level_per_effect = "default"
                     => \A e \in EffectSet :
                           submitted[b].level_found[e] = Cycle(<<1>>)

\* no step adds a key to, or changes an activity level in, a mapping the
\* caller passed
CallerMappingsKept ==
    [][/\ activity_lv_per_effect'["caller"] = activity_lv_per_effect["caller"]
       /\ DOMAIN level_per_effect'["caller"] = DOMAIN level_per_effect["caller"]]_vars

\* C11 as claimed: no configuration state leaks between invocations.
\* Constructing or rendering one BrokenRadio that relies on the default
\* effect configuration leaves the activity levels and the positions of the
\* level and parameter streams that another, independently constructed
\* BrokenRadio observes unchanged, and the mappings the caller passed are
\* not modified.
C11_NoStateLeak == []StreamsOwnedPerRadio /\ CallerMappingsKept

====
